---------------------------- MODULE Spec2Model ----------------------------
(***************************************************************************)
(* bootyspector: a continuous bootnode tester.  The model covers the port  *)
(* allocator (bootnode.rs get_next_port), the health poller                *)
(* (NodeProcess::bootnode_is_working), one probe (test_bootnode with       *)
(* spawn_node and cleanup), the cycle driver (main.rs run_test_cycle and   *)
(* the loop of main), the result file (update_results) and the             *)
(* test-success gauge (metrics.rs record_test_result).                     *)
(*                                                                         *)
(* Three specifications share the variables:                               *)
(*   Spec        the cycle driver with its concurrent units                *)
(*   SpecPoller  one run of bootnode_is_working, one loop iteration a step *)
(*   SpecPort    main's initialisation of NEXT_PORT followed by            *)
(*               sequential get_next_port calls                            *)
(*   SpecScraper one call of check_discovered_peers, one fetch or one      *)
(*               backoff sleep a step                                      *)
(*   SpecStore   update_results applied twice to one TestResult            *)
(*   SpecLoop    the loop of main, run_test_cycle taken as one step        *)
(***************************************************************************)
EXTENDS Integers, Sequences, FiniteSets, TLC

(***************************************************************************)
(* Program constants.                                                      *)
(***************************************************************************)
MIN_PORT == 49152

MAX_PORT == 65535

U16_MAX == 65535

DEFAULT_BASE_PORT == 49615

MAX_CONSECUTIVE_FAILURES == 3

WARMUP_SECS == 5

POLL_SLEEP_SECS == 1

MAX_RETRIES == 5

INITIAL_BACKOFF_MS == 100

JITTER_MOD == 100

(***************************************************************************)
(* Bounds of the model.                                                    *)
(***************************************************************************)
\* semaphore size (cli.max_concurrent); three targets are queued per cycle
MaxConcurrent == 2

\* cycles of main's loop that are explored
MaxCycles == 2

\* cycles of main's loop that are explored under fair scheduling
MaxFairCycles == 1

\* largest peer count a scraped payload reports
MaxPeers == 1

\* largest configured minimum of discovered peers (cli.min_peers)
MaxMinPeers == 1

\* largest configured poll timeout in seconds (cli.timeout)
MaxTimeout == 4

\* longest time in seconds one check_discovered_peers call takes
MaxScrapeSecs == 1

\* failures of the environment (file system, process launch, panic) in a run
MaxFaults == 1

\* most lines a metrics payload has
MaxPayloadLines == 2

\* turns of main's loop that SpecLoop explores
MaxLoopCycles == 3

\* largest cycle interval in seconds (cli.interval)
MaxInterval == 2

\* longest duration of one cycle in seconds
MaxElapsed == 3

VARIABLES
    NEXT_PORT,      \* the AtomicU16 port counter
    port_pc,        \* SpecPort: "boot" before main stores base_port, then "run"
    port_ret,       \* SpecPort: value returned by the latest get_next_port, -1 if none
    port_calls,     \* SpecPort: get_next_port calls since the counter last was MIN_PORT
    min_peers,      \* cli.min_peers
    timeout,        \* cli.timeout
    chain_specs,    \* networks whose chain-spec file exists in cli.chain_spec_dir
    pl,             \* SpecPoller: the poller's locals
    nm_run,         \* SpecPoller: consecutive polls whose payload held no recognised metric
    err_run,        \* SpecPoller: consecutive polls that ended in a scrape error
    polls,          \* SpecPoller: scrapes issued by this run
    last_scrape,    \* SpecPoller: result of the latest scrape
    below_run,      \* SpecPoller: consecutive polls that were Available below min_peers
    fail_run,       \* SpecPoller: consecutive polls that were NoMetricFound or an error
    sc,             \* SpecScraper: locals of check_discovered_peers
    store,          \* SpecStore: the merges applied to results_file (history)
    interval,       \* SpecLoop: cli.interval in seconds
    elapsed,        \* SpecLoop: cycle_start.elapsed() after the latest cycle
    delay,          \* SpecLoop: what main slept after the latest cycle, -1 if none
    logged,         \* SpecLoop: the cycle results main has logged, in order
    dirs,           \* data directories that exist under cli.data_dir
    permits,        \* free permits of the semaphore
    unit,           \* per spawned task: its position and locals
    hist,           \* per task: what spawn_node, cleanup and the task did (history)
    test_success,   \* the test_success gauge, by <<network, provider>>; -1 = never set
    results_file,   \* results.json in cli.output_dir
    main_pc,        \* position of main's loop
    cycle,          \* cycles started so far
    idx,            \* run_test_cycle: index of the next task result to handle
    summary,        \* run_test_cycle: total_tests, success_count, failed_tests
    cycle_result,   \* what the latest run_test_cycle returned: "none", "ok", "err"
    merged,         \* tasks of this cycle whose outcome update_results stored (history)
    merge_failed,   \* tasks of this cycle whose update_results returned Err (history)
    faults          \* failures the environment has injected so far

port_aux == <<port_pc, port_ret, port_calls>>

port_vars == <<NEXT_PORT, port_aux>>

static_vars == <<min_peers, timeout, chain_specs>>

poller_vars == <<pl, nm_run, err_run, polls, last_scrape, below_run, fail_run>>

loop_vars == <<interval, elapsed, delay, logged>>

\* the variables only SpecScraper, SpecStore and SpecLoop change
side_vars == <<sc, store, loop_vars>>

unit_vars == <<dirs, permits, unit, hist, test_success>>

main_vars == <<results_file, main_pc, cycle, idx, summary, cycle_result, merged, merge_failed>>

cycle_vars == <<unit_vars, main_vars, faults>>

vars == <<port_vars, static_vars, poller_vars, cycle_vars, side_vars>>

\* what no step of a unit changes
unit_fixed == <<port_aux, static_vars, poller_vars, main_vars, side_vars>>

\* what no step of run_test_cycle or main changes
main_fixed == <<port_vars, static_vars, poller_vars, dirs, permits, test_success, side_vars>>

(***************************************************************************)
(* PortAllocator: get_next_port.                                           *)
(***************************************************************************)
\* the value get_next_port stores for a loaded counter value
NextPortValue(current) ==
    IF current >= MAX_PORT THEN MIN_PORT ELSE current + 1

\* main: NEXT_PORT.store(cli.base_port); base_port is any u16
MainStoreBasePort ==
    /\ port_pc = "boot"
    /\ \E base_port \in 0..U16_MAX : NEXT_PORT' = base_port
    /\ port_pc' = "run"
    /\ UNCHANGED <<port_ret, port_calls, static_vars, poller_vars, cycle_vars, side_vars>>

\* one whole get_next_port call with no other call in between
GetNextPortSequential ==
    /\ port_pc = "run"
    /\ LET current == NEXT_PORT IN
         /\ NEXT_PORT' = NextPortValue(current)
         /\ port_ret' = current
         /\ port_calls' = IF current = MIN_PORT THEN 1
                          ELSE IF port_calls > 0 THEN port_calls + 1 ELSE 0
    /\ UNCHANGED <<port_pc, static_vars, poller_vars, cycle_vars, side_vars>>

(***************************************************************************)
(* MetricsScraper results as the poller sees them.                         *)
(***************************************************************************)
NoValue == -1

\* parsed peer data: the keys "discovered" and "connected", each absent
\* (NoValue) or a count
PeerData ==
    [discovered : {NoValue} \cup (0..MaxPeers), connected : {NoValue} \cup (0..MaxPeers)]

\* a result whose primary peer count is taken from the "connected" key
CreateMetricsResultFromConnected(peer_data) ==
    [ peers  |-> IF peer_data.connected = NoValue THEN 0 ELSE peer_data.connected,
      status |-> IF peer_data.discovered # NoValue THEN "Available" ELSE "NoMetricFound",
      error  |-> "none" ]

create_metrics_result(peer_data) ==
    [ peers  |-> IF peer_data.discovered = NoValue THEN 0 ELSE peer_data.discovered,
      status |-> IF peer_data.discovered # NoValue THEN "Available" ELSE "NoMetricFound",
      error  |-> "none" ]

\* what check_discovered_peers returns: Ok(create_metrics_result(..)) or Err(e)
ScrapeKinds == {"Ok", "Err"}

\* the error texts of a failed fetch: no connection, or a non-success status
FetchErrors == {"fetch_failed", "bad_status"}

EmptyPeerData == [discovered |-> NoValue, connected |-> NoValue]

ScrapeOk(pd) ==
    [kind |-> "Ok", peer_data |-> pd, metrics |-> create_metrics_result(pd), error |-> "none"]

ScrapeErr(e) ==
    [kind |-> "Err", peer_data |-> EmptyPeerData,
     metrics |-> [peers |-> 0, status |-> "none", error |-> "none"], error |-> e]

ScrapeResults ==
    { ScrapeOk(pd) : pd \in PeerData } \cup { ScrapeErr(e) : e \in FetchErrors }

NoScrape ==
    [kind |-> "none", peer_data |-> EmptyPeerData,
     metrics |-> [peers |-> 0, status |-> "none", error |-> "none"], error |-> "none"]

(***************************************************************************)
(* MetricsScraper: the payload and its parsing.                            *)
(***************************************************************************)
DISCOVERED_METRIC == "substrate_sub_libp2p_peerset_num_discovered"

CONNECTED_METRIC == "substrate_sub_libp2p_peers_count"

MetricNames == {DISCOVERED_METRIC, CONNECTED_METRIC, "other_metric"}

\* the last token of a line: text that f64 parsing rejects, or a number, kept
\* as its count of halves so that negative and fractional values occur
TextToken == [kind |-> "text", halves |-> 0]

ValueTokens ==
    [kind : {"number"}, halves : (-1)..(2 * MaxPeers + 1)] \cup {TextToken}

CommentLine == [kind |-> "comment", name |-> "none", value |-> TextToken]

Lines ==
    {CommentLine} \cup [kind : {"sample"}, name : MetricNames, value : ValueTokens]

Payloads == UNION { [1..n -> Lines] : n \in 0..MaxPayloadLines }

\* `value as u64` for an f64: negative values saturate to 0, the fraction is cut
F64AsU64(halves) == IF halves < 0 THEN 0 ELSE halves \div 2

\* Ok(None)
NoPair == [key |-> "none", count |-> 0]

parse_metric_line(line) ==
    IF line.kind = "comment" \/ line.value.kind # "number" THEN NoPair
    ELSE CASE line.name = DISCOVERED_METRIC ->
                [key |-> "discovered", count |-> F64AsU64(line.value.halves)]
           [] line.name = CONNECTED_METRIC ->
                [key |-> "connected", count |-> F64AsU64(line.value.halves)]
           [] OTHER -> NoPair

\* the loop of parse_peer_metrics over the remaining lines
RECURSIVE ParseLines(_, _)
ParseLines(lines, peer_data) ==
    IF lines = << >> THEN peer_data
    ELSE LET pair == parse_metric_line(Head(lines)) IN
         ParseLines(Tail(lines),
                    IF pair = NoPair THEN peer_data
                    ELSE [peer_data EXCEPT ![pair.key] = pair.count])

parse_peer_metrics(metrics) == ParseLines(metrics, EmptyPeerData)

(***************************************************************************)
(* MetricsScraper: check_discovered_peers and its retries.                 *)
(***************************************************************************)
\* rand::random::<u64>() % 100: the least and the greatest jitter
Jitters == {0, JITTER_MOD - 1}

\* a backoff that does not grow
FlatBackoffMs(retry) == INITIAL_BACKOFF_MS

\* INITIAL_BACKOFF * 2u32.pow(retry), in milliseconds
BackoffMs(retry) == INITIAL_BACKOFF_MS * 2 ^ retry

StoreIdle == [pc |-> "idle"]

ScraperIdle ==
    [ pc |-> "idle", retry |-> 0, attempts |-> 0, last_error |-> "none",
      delays |-> << >>, payload |-> << >>, result |-> NoScrape ]

\* fetch_metrics returned Ok(text): parse it and return
CheckDiscoveredPeersFetchOk ==
    /\ sc.pc = "fetch"
    /\ \E payload \in Payloads :
         sc' = [sc EXCEPT !.pc = "done", !.attempts = @ + 1, !.payload = payload,
                          !.result = ScrapeOk(parse_peer_metrics(payload))]
    /\ UNCHANGED <<store, loop_vars, port_vars, static_vars, poller_vars, cycle_vars>>

\* fetch_metrics returned Err(e): return it on the last retry, else go on
CheckDiscoveredPeersFetchErr ==
    /\ sc.pc = "fetch"
    /\ \E e \in FetchErrors :
         sc' = IF sc.retry = MAX_RETRIES - 1
               THEN [sc EXCEPT !.pc = "done", !.attempts = @ + 1, !.last_error = e,
                               !.result = ScrapeErr(e)]
               ELSE [sc EXCEPT !.pc = "backoff", !.attempts = @ + 1, !.last_error = e]
    /\ UNCHANGED <<store, loop_vars, port_vars, static_vars, poller_vars, cycle_vars>>

\* sleep(backoff + jitter), then the next turn of `for retry in 0..MAX_RETRIES`
CheckDiscoveredPeersBackoff ==
    /\ sc.pc = "backoff"
    /\ \E jitter \in Jitters :
         sc' = [sc EXCEPT !.pc = "fetch", !.retry = @ + 1,
                          !.delays = Append(@, BackoffMs(sc.retry) + jitter)]
    /\ UNCHANGED <<store, loop_vars, port_vars, static_vars, poller_vars, cycle_vars>>

(***************************************************************************)
(* HealthPoller: NodeProcess::bootnode_is_working.                         *)
(***************************************************************************)
TerminalStatus == {"Success", "NoMetricFound", "MetricsUnavailable", "Timeout"}

\* the poller before bootnode_is_working is entered, at clock value t
PollerIdle(t) ==
    [ st |-> "Starting", now |-> t, end_time |-> 0, consecutive_failures |-> 0,
      peers |-> 0, error |-> "none" ]

\* sleep(5 s); end_time = Instant::now() + timeout; consecutive_failures = 0
PollerEnter(p, tmo) ==
    [ p EXCEPT !.st = "Polling",
               !.now = p.now + WARMUP_SECS,
               !.end_time = p.now + WARMUP_SECS + tmo,
               !.consecutive_failures = 0 ]

\* return Ok((peers, status, error))
PollerReturn(p, peers, status, error) ==
    [ p EXCEPT !.st = status, !.peers = peers, !.error = error ]

\* sleep(1 s) at the end of an iteration whose scrape took d seconds
PollerSleep(p, cf, d) ==
    [ p EXCEPT !.consecutive_failures = cf, !.now = p.now + d + POLL_SLEEP_SECS ]

\* a failed poll that gives up without the error text
PollerFailureDropsError(p, cf, d, status, error) ==
    IF cf + 1 >= MAX_CONSECUTIVE_FAILURES
    THEN PollerReturn([p EXCEPT !.consecutive_failures = cf + 1, !.now = p.now + d],
                      0, status, "none")
    ELSE PollerSleep(p, cf + 1, d)

\* a failed poll that is counted but never ends the run
PollerFailureNeverGivesUp(p, cf, d, status, error) ==
    PollerSleep(p, cf + 1, d)

\* the arm of the match for a failed poll: count it, give up at the threshold
PollerFailure(p, cf, d, status, error) ==
    IF cf + 1 >= MAX_CONSECUTIVE_FAILURES
    THEN PollerReturn([p EXCEPT !.consecutive_failures = cf + 1, !.now = p.now + d],
                      0, status, error)
    ELSE PollerSleep(p, cf + 1, d)

\* the body of the while loop for one scrape result that took d seconds
PollerIteration(p, scrape, d, minimum) ==
    IF scrape.kind = "Ok"
    THEN \* consecutive_failures = 0 comes first, for every Ok(metrics)
         CASE scrape.metrics.status = "Available" /\ scrape.metrics.peers >= minimum ->
                PollerReturn([p EXCEPT !.consecutive_failures = 0, !.now = p.now + d],
                             scrape.metrics.peers, "Success", "none")
           [] scrape.metrics.status = "Available" /\ scrape.metrics.peers < minimum ->
                PollerSleep(p, 0, d)
           [] scrape.metrics.status = "NoMetricFound" ->
                PollerFailure(p, 0, d, "NoMetricFound", "none")
           [] OTHER ->
                PollerFailure(p, 0, d, "MetricsUnavailable", scrape.metrics.error)
    ELSE PollerFailure(p, p.consecutive_failures, d, "MetricsUnavailable", scrape.error)

\* a deadline that is seen and leaves the poller polling
PollerTimeoutKeepsPolling(p) == p

\* a deadline that is reported as a success
PollerTimeoutAsSuccess(p) == PollerReturn(p, 0, "Success", "none")

\* the loop condition failed: Ok((0, Timeout, None))
PollerTimeout(p) == PollerReturn(p, 0, "Timeout", "none")

\* one turn of `while Instant::now() < end_time { .. }`
PollerTurn(p, scrape, d, minimum) ==
    IF p.now < p.end_time THEN PollerIteration(p, scrape, d, minimum)
    ELSE PollerTimeout(p)

\* ---- SpecPoller's actions ----
BootnodeIsWorkingEnter ==
    /\ pl.st = "Starting"
    /\ pl' = PollerEnter(pl, timeout)
    /\ UNCHANGED <<nm_run, err_run, polls, last_scrape, below_run, fail_run, static_vars,
                   port_vars, cycle_vars, side_vars>>

BootnodeIsWorkingPoll ==
    /\ pl.st = "Polling"
    /\ pl.now < pl.end_time
    /\ \E scrape \in ScrapeResults, d \in 0..MaxScrapeSecs :
         /\ pl' = PollerTurn(pl, scrape, d, min_peers)
         /\ last_scrape' = scrape
         /\ nm_run' = IF scrape.kind = "Ok" /\ scrape.peer_data.discovered = NoValue
                         /\ scrape.peer_data.connected = NoValue
                      THEN nm_run + 1 ELSE 0
         /\ err_run' = IF scrape.kind = "Err" THEN err_run + 1 ELSE 0
         /\ below_run' = IF scrape.kind = "Ok" /\ scrape.metrics.status = "Available"
                             /\ scrape.metrics.peers < min_peers
                          THEN below_run + 1 ELSE 0
         /\ fail_run' = IF scrape.kind = "Err" \/ scrape.metrics.status = "NoMetricFound"
                         THEN fail_run + 1 ELSE 0
    /\ polls' = polls + 1
    /\ UNCHANGED <<static_vars, port_vars, cycle_vars, side_vars>>

BootnodeIsWorkingDeadline ==
    /\ pl.st = "Polling"
    /\ ~(pl.now < pl.end_time)
    /\ pl' = PollerTurn(pl, NoScrape, 0, min_peers)
    /\ UNCHANGED <<nm_run, err_run, polls, last_scrape, below_run, fail_run, static_vars,
                   port_vars, cycle_vars, side_vars>>

(***************************************************************************)
(* One run of the poller as a function of the scrape results it is given.  *)
(***************************************************************************)
\* what the poller reads of a scrape result
PollerView(scrape) ==
    [kind |-> scrape.kind, metrics |-> scrape.metrics, error |-> scrape.error]

\* the scrape results the probes of a cycle are given: one error text
CycleScrapes == { s \in ScrapeResults : s.error \in {"none", "fetch_failed"} }

PollerViews == { PollerView(s) : s \in CycleScrapes }

RECURSIVE PollerRun(_, _, _)
PollerRun(p, inputs, minimum) ==
    IF p.st \in TerminalStatus \/ inputs = << >> THEN p
    ELSE PollerRun(PollerTurn(p, Head(inputs), 0, minimum), Tail(inputs), minimum)

\* bootnode_is_working's return value (discovered_peers, status, error_details)
PollerOutcome(p) == [peers |-> p.peers, status |-> p.st, error |-> p.error]

\* every scrape advances the clock by at least the one-second sleep, so
\* tmo + 1 turns always end the run
bootnode_is_working(inputs, tmo, minimum) ==
    PollerOutcome(PollerRun(PollerEnter(PollerIdle(0), tmo), inputs, minimum))

PollerOutcomes ==
    [ minimum \in 0..MaxMinPeers, tmo \in 0..MaxTimeout |->
        { bootnode_is_working(inputs, tmo, minimum) :
            inputs \in [1..(tmo + 1) -> PollerViews] } ]

(***************************************************************************)
(* Targets: the flattened bootnodes configuration, in task order.  opA     *)
(* lists two bootnode addresses for network n1.                            *)
(***************************************************************************)
Targets ==
    << [network |-> "n1", operator |-> "opA", bootnode |-> "b1"],
       [network |-> "n1", operator |-> "opA", bootnode |-> "b2"],
       [network |-> "n2", operator |-> "opB", bootnode |-> "b3"] >>

Units == 1..Len(Targets)

Networks == { Targets[u].network : u \in Units }

Operators == { Targets[u].operator : u \in Units }

\* cli.data_dir.join(format!("{}_{}", operator, network))
DataDir(u) == <<Targets[u].operator, Targets[u].network>>

(***************************************************************************)
(* TestResult and the result of a spawned task.                            *)
(***************************************************************************)
NoResult ==
    [ id |-> "none", network |-> "none", bootnode |-> "none", valid |-> FALSE,
      discovered_peers |-> 0, status |-> "none", error_details |-> "none" ]

\* a startup failure that is reported as a valid bootnode
StartupFailedResultValid(u, e) ==
    [ id |-> Targets[u].operator, network |-> Targets[u].network,
      bootnode |-> Targets[u].bootnode, valid |-> TRUE, discovered_peers |-> 0,
      status |-> "NodeStartupFailed", error_details |-> e ]

\* test_bootnode's result when spawn_node returned Err(e)
StartupFailedResult(u, e) ==
    [ id |-> Targets[u].operator, network |-> Targets[u].network,
      bootnode |-> Targets[u].bootnode, valid |-> FALSE, discovered_peers |-> 0,
      status |-> "NodeStartupFailed", error_details |-> e ]

\* test_bootnode's result after bootnode_is_working and cleanup
PolledResult(u, outcome, minimum) ==
    [ id |-> Targets[u].operator, network |-> Targets[u].network,
      bootnode |-> Targets[u].bootnode,
      valid |-> outcome.peers >= minimum,
      discovered_peers |-> outcome.peers,
      status |-> outcome.status, error_details |-> outcome.error ]

TaskPending == [kind |-> "pending", result |-> NoResult]

\* a task that holds the TestResult test_bootnode returned
TaskHolding(r) == [kind |-> "pending", result |-> r]

TaskOk(r) == [kind |-> "ok", result |-> r]

TaskErr == [kind |-> "err", result |-> NoResult]

TaskPanicked == [kind |-> "panic", result |-> NoResult]

\* a task that tokio::spawn has just created
UnitQueued ==
    [ pc |-> "queued", current |-> 0, prometheus_port |-> 0, p2p_port |-> 0,
      task |-> TaskPending ]

\* no task: before the first cycle
UnitNone == [UnitQueued EXCEPT !.pc = "done"]

HistNone ==
    [ dir_created |-> FALSE, launched |-> FALSE, kills |-> 0, removals |-> 0,
      lost_status |-> "none", recorded |-> FALSE ]

\* the task holds a semaphore permit
HoldsPermit(u) == unit[u].pc \notin {"queued", "done"}

\* the task is between the start of spawn_node and the end of cleanup
ProbeLive(u) ==
    unit[u].pc \in {"prometheus_store", "p2p_load", "p2p_store", "polling"}

\* the task owns a NodeProcess
NodeLive(u) == unit[u].pc = "polling"

(***************************************************************************)
(* The environment: a call into the file system or the process table may   *)
(* fail, and a task may panic, while the budget of faults lasts.           *)
(***************************************************************************)
\* the outcomes (TRUE = success) the environment may give a fallible call
Outcomes == IF faults < MaxFaults THEN BOOLEAN ELSE {TRUE}

Charge(ok) == faults' = IF ok THEN faults ELSE faults + 1

(***************************************************************************)
(* One unit: the task run_test_cycle spawns for a target.                  *)
(***************************************************************************)
\* an acquire that does not wait for a free permit
AcquireWithoutWaiting(u) ==
    /\ unit[u].pc = "queued"
    /\ permits' = permits - 1
    /\ unit' = [unit EXCEPT ![u].pc = "spawn_dir"]
    /\ UNCHANGED <<dirs, hist, test_success, faults, NEXT_PORT, unit_fixed>>

\* let _permit = semaphore.acquire().await?
Acquire(u) ==
    /\ unit[u].pc = "queued"
    /\ permits > 0
    /\ permits' = permits - 1
    /\ unit' = [unit EXCEPT ![u].pc = "spawn_dir"]
    /\ UNCHANGED <<dirs, hist, test_success, faults, NEXT_PORT, unit_fixed>>

\* spawn_node up to the load of the first get_next_port: create_dir_all,
\* bail if the chain-spec file is missing, current = NEXT_PORT.load(Relaxed)
SpawnNodeDir(u) ==
    /\ unit[u].pc = "spawn_dir"
    /\ \E created \in Outcomes :
         /\ Charge(created)
         /\ IF ~created
            THEN /\ unit' = [unit EXCEPT
                        ![u].pc = "record",
                        ![u].task = TaskHolding(StartupFailedResult(u, "create_dir_failed"))]
                 /\ UNCHANGED <<dirs, hist>>
            ELSE /\ dirs' = dirs \cup {DataDir(u)}
                 /\ hist' = [hist EXCEPT ![u].dir_created = TRUE]
                 /\ unit' = IF Targets[u].network \in chain_specs
                            THEN [unit EXCEPT ![u].pc = "prometheus_store",
                                              ![u].current = NEXT_PORT]
                            ELSE [unit EXCEPT
                                    ![u].pc = "record",
                                    ![u].task = TaskHolding(StartupFailedResult(u, "no_chain_spec"))]
    /\ UNCHANGED <<permits, test_success, NEXT_PORT, unit_fixed>>

\* get_next_port for the p2p port: let current = NEXT_PORT.load(Relaxed)
GetNextPortLoad(u) ==
    /\ unit[u].pc = "p2p_load"
    /\ unit' = [unit EXCEPT ![u].current = NEXT_PORT, ![u].pc = "p2p_store"]
    /\ UNCHANGED <<dirs, permits, hist, test_success, faults, NEXT_PORT, unit_fixed>>

\* get_next_port for the metrics port: NEXT_PORT.store(next, Relaxed);
\* return current
GetNextPortStore(u) ==
    /\ unit[u].pc = "prometheus_store"
    /\ NEXT_PORT' = NextPortValue(unit[u].current)
    /\ unit' = [unit EXCEPT ![u].prometheus_port = unit[u].current,
                            ![u].pc = "p2p_load"]
    /\ UNCHANGED <<dirs, permits, hist, test_success, faults, unit_fixed>>

\* the rest of spawn_node: the store of get_next_port for the p2p port, then
\* cmd.spawn() and Ok(NodeProcess { .. }), or the Err of a failed launch
SpawnNodeLaunch(u) ==
    /\ unit[u].pc = "p2p_store"
    /\ NEXT_PORT' = NextPortValue(unit[u].current)
    /\ \E spawned \in Outcomes :
         /\ Charge(spawned)
         /\ IF spawned
            THEN /\ unit' = [unit EXCEPT ![u].p2p_port = unit[u].current,
                                         ![u].pc = "polling"]
                 /\ hist' = [hist EXCEPT ![u].launched = TRUE]
            ELSE /\ unit' = [unit EXCEPT
                        ![u].pc = "record",
                        ![u].prometheus_port = 0, ![u].current = 0,
                        ![u].task = TaskHolding(StartupFailedResult(u, "spawn_failed"))]
                 /\ UNCHANGED hist
    /\ UNCHANGED <<dirs, permits, test_success, unit_fixed>>

\* the unit's task ends: its locals and the permit are dropped, the
\* JoinHandle gets `task`
TaskEnd(u, task) ==
    [unit EXCEPT ![u] = [UnitQueued EXCEPT !.pc = "done", !.task = task]]

\* node.bootnode_is_working(..).await?, node.cleanup().await? and the
\* construction of the TestResult.  The poller touches nothing shared, so its
\* whole run is part of this step.  cleanup kills the process, then
\* remove_dir_all fails when the directory is gone or the file system
\* refuses; its Err ends test_bootnode and the task
PollAndCleanup(u) ==
    /\ unit[u].pc = "polling"
    /\ \E outcome \in PollerOutcomes[min_peers, timeout], io_ok \in Outcomes :
         /\ Charge(io_ok)
         /\ IF io_ok /\ DataDir(u) \in dirs
            THEN /\ dirs' = dirs \ {DataDir(u)}
                 /\ hist' = [hist EXCEPT ![u].kills = @ + 1, ![u].removals = @ + 1]
                 /\ unit' = [unit EXCEPT
                        ![u].pc = "record",
                        ![u].prometheus_port = 0, ![u].p2p_port = 0, ![u].current = 0,
                        ![u].task = TaskHolding(PolledResult(u, outcome, min_peers))]
                 /\ UNCHANGED permits
            ELSE /\ hist' = [hist EXCEPT ![u].kills = @ + 1,
                                         ![u].lost_status = outcome.status]
                 /\ unit' = TaskEnd(u, TaskErr)
                 /\ permits' = permits + 1
                 /\ UNCHANGED dirs
    /\ UNCHANGED <<test_success, NEXT_PORT, unit_fixed>>

\* a task that ends without giving its permit back
RecordTestResultKeepingPermit(u) ==
    /\ unit[u].pc = "record"
    /\ test_success' =
         [test_success EXCEPT ![<<Targets[u].network, Targets[u].operator>>] =
             IF unit[u].task.result.valid THEN 1 ELSE 0]
    /\ hist' = [hist EXCEPT ![u].recorded = TRUE]
    /\ unit' = TaskEnd(u, TaskOk(unit[u].task.result))
    /\ UNCHANGED <<dirs, permits, faults, NEXT_PORT, unit_fixed>>

\* metrics.record_test_result(..); Ok(result)
RecordTestResult(u) ==
    /\ unit[u].pc = "record"
    /\ test_success' =
         [test_success EXCEPT ![<<Targets[u].network, Targets[u].operator>>] =
             IF unit[u].task.result.valid THEN 1 ELSE 0]
    /\ hist' = [hist EXCEPT ![u].recorded = TRUE]
    /\ unit' = TaskEnd(u, TaskOk(unit[u].task.result))
    /\ permits' = permits + 1
    /\ UNCHANGED <<dirs, faults, NEXT_PORT, unit_fixed>>

\* a panic whose unwinding does not give the permit back
RecordPanicsKeepingPermit(u) ==
    /\ unit[u].pc = "record"
    /\ faults < MaxFaults
    /\ faults' = faults + 1
    /\ unit' = TaskEnd(u, TaskPanicked)
    /\ UNCHANGED <<dirs, permits, hist, test_success, NEXT_PORT, unit_fixed>>

\* with_label_values panics inside record_test_result: the task unwinds
RecordPanics(u) ==
    /\ unit[u].pc = "record"
    /\ faults < MaxFaults
    /\ faults' = faults + 1
    /\ unit' = TaskEnd(u, TaskPanicked)
    /\ permits' = permits + 1
    /\ UNCHANGED <<dirs, hist, test_success, NEXT_PORT, unit_fixed>>

(***************************************************************************)
(* ResultStore: update_results.                                            *)
(***************************************************************************)
NoEntry == [kind |-> "missing", nets |-> [n \in Networks |-> NoResult]]

\* an operator key that holds a JSON value other than an object
ScalarEntry == [kind |-> "scalar", nets |-> [n \in Networks |-> NoResult]]

EmptyDoc == [o \in Operators |-> NoEntry]

FileAbsent == [state |-> "absent", doc |-> EmptyDoc]

FileOf(doc) == [state |-> "json", doc |-> doc]

\* a file that holds valid JSON other than an object, such as []
FileNotObject == [state |-> "not_object", doc |-> EmptyDoc]

\* an entry that is replaced by an empty object whatever it held
EntryReplaced(doc, operator) ==
    [doc EXCEPT ![operator] = [NoEntry EXCEPT !.kind = "object"]]

\* .entry(operator).or_insert(json!({}))
EntryOrInsert(doc, operator) ==
    IF doc[operator].kind = "missing"
    THEN [doc EXCEPT ![operator].kind = "object"]
    ELSE doc

\* a merge that keeps the outcome an entry already holds
UpdateResultsKeepsFirst(file, operator, network, result, io_ok) ==
    IF file.state \in {"malformed", "not_object"} \/ ~io_ok
    THEN [ok |-> FALSE, file |-> file]
    ELSE LET json == EntryOrInsert(file.doc, operator) IN
         IF json[operator].kind # "object" THEN [ok |-> FALSE, file |-> file]
         ELSE [ok |-> TRUE,
               file |-> FileOf([json EXCEPT ![operator].nets[network] =
                                   IF @ = NoResult THEN result ELSE @])]

\* [ok, file]: whether update_results returned Ok, and the file afterwards;
\* every Err is returned before the rename, so it leaves the file as it was
update_results(file, operator, network, result, io_ok) ==
    IF file.state = "malformed" THEN [ok |-> FALSE, file |-> file]
    ELSE IF file.state = "not_object"
    THEN \* `if let Value::Object(..) = json` is skipped; the value is written back
         [ok |-> io_ok, file |-> file]
    ELSE LET json == EntryOrInsert(file.doc, operator) IN
         IF json[operator].kind # "object" THEN [ok |-> FALSE, file |-> file]
         ELSE IF ~io_ok THEN [ok |-> FALSE, file |-> file]
         ELSE [ok |-> TRUE,
               file |-> FileOf([json EXCEPT ![operator].nets[network] = result])]

\* ---- SpecStore's inputs and action ----
\* TestResults to merge: a startup failure or a success of any target
SampleResults ==
    { StartupFailedResult(u, "no_chain_spec") : u \in Units }
    \cup { PolledResult(u, [peers |-> p, status |-> "Success", error |-> "none"], 0)
             : u \in Units, p \in 0..MaxPeers }

\* what results.json may hold under an operator and a network beforehand
StoredResults ==
    { NoResult, StartupFailedResult(1, "spawn_failed"),
      PolledResult(Len(Targets), [peers |-> 0, status |-> "Timeout", error |-> "none"], 0) }

OperatorEntries ==
    { NoEntry, ScalarEntry }
    \cup { [kind |-> "object", nets |-> nets] : nets \in [Networks -> StoredResults] }

InitialFiles ==
    { FileAbsent, FileNotObject }
    \cup { FileOf(doc) : doc \in [Operators -> OperatorEntries] }

\* one call update_results(path, operator, network, result); the same
\* arguments are passed at most twice
UpdateResults ==
    /\ store.pc = "merging"
    /\ Len(store.after) < 2
    /\ \E io_ok \in BOOLEAN :
         LET upd == update_results(results_file, store.operator, store.network,
                                   store.result, io_ok)
         IN  /\ results_file' = upd.file
             /\ store' = [store EXCEPT !.after = Append(@, upd.file),
                                       !.oks = Append(@, upd.ok)]
    /\ UNCHANGED <<sc, loop_vars, port_vars, static_vars, poller_vars, unit_vars,
                   main_pc, cycle, idx, summary, cycle_result, merged, merge_failed, faults>>

(***************************************************************************)
(* ProbeScheduler: run_test_cycle, and the loop of main.                   *)
(***************************************************************************)
NoSummary == [total_tests |-> 0, success_count |-> 0, failed_tests |-> {}]

\* the loop that pushes one tokio::spawn per target
RunTestCycleSpawn ==
    /\ main_pc = "idle"
    /\ cycle < MaxCycles
    /\ cycle' = cycle + 1
    /\ unit' = [u \in Units |-> UnitQueued]
    /\ hist' = [u \in Units |-> HistNone]
    /\ idx' = 1
    /\ summary' = [total_tests |-> Len(Targets), success_count |-> 0, failed_tests |-> {}]
    /\ cycle_result' = "none"
    /\ merged' = {}
    /\ merge_failed' = {}
    /\ main_pc' = "join"
    /\ UNCHANGED <<results_file, faults, main_fixed>>

\* a wait for the tasks one after the other, as the loop reaches them
TasksDoneInTurn == idx > Len(Targets) \/ unit[idx].pc = "done"

\* join_all(tasks).await has resolved: every task has finished
AllTasksDone == \A u \in Units : unit[u].pc = "done"

\* one turn of `for result in join_all(tasks).await`
CollectResult ==
    /\ main_pc = "join"
    /\ AllTasksDone
    /\ idx <= Len(Targets)
    /\ LET task == unit[idx].task IN
         CASE task.kind = "panic" ->
                \* result? returns the JoinError
                /\ main_pc' = "cycle_done"
                /\ cycle_result' = "err"
                /\ UNCHANGED <<idx, summary, results_file, merged, merge_failed, faults>>
           [] task.kind = "err" ->
                \* error!("Test failed: {}", e)
                /\ idx' = idx + 1
                /\ UNCHANGED <<main_pc, cycle_result, summary, results_file, merged,
                               merge_failed, faults>>
           [] OTHER ->
                /\ summary' = IF task.result.valid
                              THEN [summary EXCEPT !.success_count = @ + 1]
                              ELSE [summary EXCEPT !.failed_tests = @ \cup {idx}]
                /\ \E io_ok \in Outcomes :
                     /\ Charge(io_ok)
                     /\ LET upd == update_results(results_file, task.result.id,
                                                  task.result.network, task.result, io_ok)
                        IN  IF upd.ok
                            THEN /\ results_file' = upd.file
                                 /\ merged' = merged \cup {idx}
                                 /\ idx' = idx + 1
                                 /\ UNCHANGED <<main_pc, cycle_result, merge_failed>>
                            ELSE \* update_results(..).await? returns the error
                                 /\ merge_failed' = merge_failed \cup {idx}
                                 /\ main_pc' = "cycle_done"
                                 /\ cycle_result' = "err"
                                 /\ UNCHANGED <<results_file, merged, idx>>
    /\ UNCHANGED <<cycle, unit, hist, main_fixed>>

\* ---- SpecCollect's actions: the collect loop with update_results in two
\* steps, what it reads and what it renames into place ----
MergeIdle == [pc |-> "idle", content |-> FileAbsent]

\* a loop that hands every task result to update_results at once
MergeAnyTurn(u) == u \in Units

\* `for result in join_all(tasks).await` has reached the result of task u
MergeTurn(u) == u = idx

\* match result? { Ok(test_result) => { count it; update_results reads
\* output_file, or takes "{}" when it does not exist
CollectMergeRead(u) ==
    /\ main_pc = "join"
    /\ AllTasksDone
    /\ MergeTurn(u)
    /\ unit[u].task.kind = "ok"
    /\ store[u].pc = "idle"
    /\ summary' = IF unit[u].task.result.valid
                  THEN [summary EXCEPT !.success_count = @ + 1]
                  ELSE [summary EXCEPT !.failed_tests = @ \cup {u}]
    /\ store' = [store EXCEPT ![u] = [pc |-> "read", content |-> results_file]]
    /\ UNCHANGED <<results_file, main_pc, cycle, idx, cycle_result, merged, merge_failed,
                   faults, unit, hist, port_vars, static_vars, poller_vars, dirs, permits,
                   test_success, sc, loop_vars>>

\* the rest of update_results on what it read: insert, write the temporary
\* file, rename it over output_file; `?` returns its error from the cycle
CollectMergeWrite(u) ==
    /\ main_pc = "join"
    /\ MergeTurn(u)
    /\ store[u].pc = "read"
    /\ \E io_ok \in Outcomes :
         /\ Charge(io_ok)
         /\ LET result == unit[u].task.result
                upd == update_results(store[u].content, result.id, result.network,
                                      result, io_ok)
            IN  IF upd.ok
                THEN /\ results_file' = upd.file
                     /\ merged' = merged \cup {u}
                     /\ idx' = idx + 1
                     /\ store' = [store EXCEPT ![u].pc = "done"]
                     /\ UNCHANGED <<main_pc, cycle_result, merge_failed>>
                ELSE /\ merge_failed' = merge_failed \cup {u}
                     /\ main_pc' = "cycle_done"
                     /\ cycle_result' = "err"
                     /\ store' = [store EXCEPT ![u].pc = "failed"]
                     /\ UNCHANGED <<results_file, merged, idx>>
    /\ UNCHANGED <<cycle, summary, unit, hist, port_vars, static_vars, poller_vars, dirs,
                   permits, test_success, sc, loop_vars>>

\* the turns of the loop that call no update_results: a JoinError returned
\* by `result?`, and the Err of a task, which is logged
CollectNoMerge ==
    /\ idx <= Len(Targets)
    /\ unit[idx].task.kind \in {"panic", "err"}
    /\ CollectResult

\* Ok(TestCycleSummary { .. })
ReturnSummary ==
    /\ main_pc = "join"
    /\ AllTasksDone
    /\ idx > Len(Targets)
    /\ main_pc' = "cycle_done"
    /\ cycle_result' = "ok"
    /\ UNCHANGED <<results_file, cycle, idx, summary, merged, merge_failed, faults,
                   unit, hist, main_fixed>>

\* main: log the summary or the error, sleep the rest of the interval, loop;
\* what run_test_cycle returned and the cycle's join handles are dropped
MainLoopSleep ==
    /\ main_pc = "cycle_done"
    /\ main_pc' = "idle"
    /\ unit' = [u \in Units |-> UnitNone]
    /\ hist' = [u \in Units |-> HistNone]
    /\ idx' = 1
    /\ summary' = NoSummary
    /\ cycle_result' = "none"
    /\ merged' = {}
    /\ merge_failed' = {}
    /\ UNCHANGED <<results_file, cycle, faults, main_fixed>>

\* ---- SpecLoop's actions: main's loop with run_test_cycle as one step ----
\* a delay that is not clamped when the cycle overran
CadenceDelayUnclamped(cycle_duration, target_cycle_time) ==
    target_cycle_time - cycle_duration

\* the sleep that keeps the cycle time: target_cycle_time - cycle_duration,
\* or none when the cycle took longer
CadenceDelay(cycle_duration, target_cycle_time) ==
    IF cycle_duration < target_cycle_time
    THEN target_cycle_time - cycle_duration
    ELSE 0

\* match run_test_cycle(..).await { Ok(summary) => info!(..), Err(e) => error!(..) }
MainLoopCycle ==
    /\ main_pc = "idle"
    /\ Len(logged) < MaxLoopCycles
    /\ \E returned \in {"ok", "err"}, cycle_duration \in 0..MaxElapsed :
         /\ logged' = Append(logged, returned)
         /\ elapsed' = cycle_duration
    /\ main_pc' = "cycle_done"
    /\ UNCHANGED <<interval, delay, sc, store, port_vars, static_vars, poller_vars,
                   unit_vars, results_file, cycle, idx, summary, cycle_result, merged,
                   merge_failed, faults>>

\* the delay after the match, and the jump back to the head of the loop
MainLoopCadence ==
    /\ main_pc = "cycle_done"
    /\ delay' = CadenceDelay(elapsed, interval)
    /\ main_pc' = "idle"
    /\ UNCHANGED <<interval, elapsed, logged, sc, store, port_vars, static_vars,
                   poller_vars, unit_vars, results_file, cycle, idx, summary,
                   cycle_result, merged, merge_failed, faults>>

(***************************************************************************)
(* Specifications.                                                         *)
(***************************************************************************)
InitPollerIdle ==
    /\ pl = PollerIdle(0)
    /\ nm_run = 0
    /\ err_run = 0
    /\ polls = 0
    /\ last_scrape = NoScrape
    /\ below_run = 0
    /\ fail_run = 0

InitPortIdle ==
    /\ NEXT_PORT = MIN_PORT
    /\ port_pc = "boot"
    /\ port_ret = -1
    /\ port_calls = 0

InitCycleIdle ==
    /\ dirs = {}
    /\ permits = MaxConcurrent
    /\ unit = [u \in Units |-> UnitNone]
    /\ hist = [u \in Units |-> HistNone]
    /\ test_success = [k \in Networks \X Operators |-> -1]
    /\ main_pc = "idle"
    /\ cycle = 0
    /\ idx = 1
    /\ summary = NoSummary
    /\ cycle_result = "none"
    /\ merged = {}
    /\ merge_failed = {}
    /\ faults = 0

InitSideIdle ==
    /\ sc = ScraperIdle
    /\ store = StoreIdle
    /\ interval = 0
    /\ elapsed = 0
    /\ delay = -1
    /\ logged = << >>

\* ---- SpecPort: the port allocator on its own ----
InitPort ==
    /\ InitPortIdle
    /\ InitPollerIdle
    /\ InitCycleIdle
    /\ InitSideIdle
    /\ results_file = FileAbsent
    /\ chain_specs = Networks
    /\ min_peers = 0
    /\ timeout = 0

NextPort == MainStoreBasePort \/ GetNextPortSequential

SpecPort == InitPort /\ [][NextPort]_vars

\* ---- SpecPoller: one run of bootnode_is_working ----
InitPoller ==
    /\ InitPortIdle
    /\ InitPollerIdle
    /\ InitCycleIdle
    /\ InitSideIdle
    /\ results_file = FileAbsent
    /\ chain_specs = Networks
    /\ min_peers \in 0..MaxMinPeers
    /\ timeout \in 0..MaxTimeout

NextPoller ==
    \/ BootnodeIsWorkingEnter
    \/ BootnodeIsWorkingPoll
    \/ BootnodeIsWorkingDeadline

SpecPoller == InitPoller /\ [][NextPoller]_vars

\* every scrape returns and the task is polled again: the run takes its
\* next step whenever it has one
SpecPollerFair == SpecPoller /\ WF_vars(NextPoller)

\* ---- SpecScraper: one call of check_discovered_peers ----
InitScraper ==
    /\ InitPortIdle
    /\ InitPollerIdle
    /\ InitCycleIdle
    /\ results_file = FileAbsent
    /\ chain_specs = Networks
    /\ min_peers = 0
    /\ timeout = 0
    /\ sc = [ScraperIdle EXCEPT !.pc = "fetch"]
    /\ store = StoreIdle
    /\ interval = 0
    /\ elapsed = 0
    /\ delay = -1
    /\ logged = << >>

NextScraper ==
    \/ CheckDiscoveredPeersFetchOk
    \/ CheckDiscoveredPeersFetchErr
    \/ CheckDiscoveredPeersBackoff

SpecScraper == InitScraper /\ [][NextScraper]_vars

\* ---- SpecStore: two merges of one TestResult ----
InitStore ==
    /\ InitPortIdle
    /\ InitPollerIdle
    /\ InitCycleIdle
    /\ chain_specs = Networks
    /\ min_peers = 0
    /\ timeout = 0
    /\ sc = ScraperIdle
    /\ interval = 0
    /\ elapsed = 0
    /\ delay = -1
    /\ logged = << >>
    /\ results_file \in InitialFiles
    /\ \E operator \in Operators, network \in Networks, result \in SampleResults :
         store = [ pc |-> "merging", initial |-> results_file, operator |-> operator,
                   network |-> network, result |-> result, after |-> << >>, oks |-> << >> ]

NextStore == UpdateResults

SpecStore == InitStore /\ [][NextStore]_vars

\* ---- SpecLoop: the loop of main ----
InitLoop ==
    /\ InitPortIdle
    /\ InitPollerIdle
    /\ InitCycleIdle
    /\ results_file = FileAbsent
    /\ chain_specs = Networks
    /\ min_peers = 0
    /\ timeout = 0
    /\ sc = ScraperIdle
    /\ store = StoreIdle
    /\ interval \in 0..MaxInterval
    /\ elapsed = 0
    /\ delay = -1
    /\ logged = << >>

NextLoop == MainLoopCycle \/ MainLoopCadence

SpecLoop == InitLoop /\ [][NextLoop]_vars

\* ---- SpecCollect: the collect loop of one cycle whose tasks have ended ----
\* a task that has ended with `task` in its JoinHandle
UnitDone(task) == [UnitQueued EXCEPT !.pc = "done", !.task = task]

\* how the task of unit u may have ended
CollectedTasks(u) ==
    { TaskOk(StartupFailedResult(u, "no_chain_spec")),
      TaskOk(PolledResult(u, [peers |-> MaxPeers, status |-> "Success", error |-> "none"], 0)),
      TaskErr, TaskPanicked }

InitCollect ==
    /\ InitPortIdle
    /\ InitPollerIdle
    /\ chain_specs = Networks
    /\ min_peers = 0
    /\ timeout = 0
    /\ sc = ScraperIdle
    /\ interval = 0
    /\ elapsed = 0
    /\ delay = -1
    /\ logged = << >>
    /\ dirs = {}
    /\ permits = MaxConcurrent
    /\ hist = [u \in Units |-> HistNone]
    /\ test_success = [k \in Networks \X Operators |-> -1]
    /\ faults = 0
    /\ cycle = 1
    /\ main_pc = "join"
    /\ idx = 1
    /\ summary = [total_tests |-> Len(Targets), success_count |-> 0, failed_tests |-> {}]
    /\ cycle_result = "none"
    /\ merged = {}
    /\ merge_failed = {}
    /\ unit \in [Units -> { UnitDone(t) : t \in UNION { CollectedTasks(u) : u \in Units } }]
    /\ \A u \in Units : unit[u].task \in CollectedTasks(u)
    /\ results_file \in InitialFiles
    /\ store = [u \in Units |-> MergeIdle]

NextCollect ==
    \/ \E u \in Units : CollectMergeRead(u)
    \/ \E u \in Units : CollectMergeWrite(u)
    \/ CollectNoMerge
    \/ ReturnSummary

SpecCollect == InitCollect /\ [][NextCollect]_vars

\* ---- Spec: the cycles of main ----
\* cli.chain_spec_dir as main finds it: the chain spec of n2 is missing
ChainSpecDirs == { {"n1"} }

\* the state when main enters its loop
Init ==
    /\ NEXT_PORT = DEFAULT_BASE_PORT
    /\ port_pc = "run"
    /\ port_ret = -1
    /\ port_calls = 0
    /\ InitPollerIdle
    /\ InitCycleIdle
    /\ InitSideIdle
    /\ min_peers \in {0, MaxMinPeers}
    /\ timeout = MaxTimeout
    /\ chain_specs \in ChainSpecDirs
    /\ results_file = FileAbsent

UnitStep(u) ==
    \/ Acquire(u)
    \/ SpawnNodeDir(u)
    \/ GetNextPortLoad(u)
    \/ GetNextPortStore(u)
    \/ SpawnNodeLaunch(u)
    \/ PollAndCleanup(u)
    \/ RecordTestResult(u)
    \/ RecordPanics(u)

Next ==
    \/ RunTestCycleSpawn
    \/ \E u \in Units : UnitStep(u)
    \/ CollectResult
    \/ ReturnSummary
    \/ MainLoopSleep

Spec == Init /\ [][Next]_vars

\* ---- SpecFair: the cycles of main under fair scheduling ----
\* main starts a cycle, while the cycles explored under fairness last
RunTestCycleSpawnFair ==
    /\ cycle < MaxFairCycles
    /\ RunTestCycleSpawn

\* the steps of main and of run_test_cycle itself
MainStepFair ==
    \/ RunTestCycleSpawnFair
    \/ CollectResult
    \/ ReturnSummary
    \/ MainLoopSleep

NextFair ==
    \/ \E u \in Units : UnitStep(u)
    \/ MainStepFair

\* the runtime polls every task that can go on, main's included, and a
\* released permit wakes a waiting acquire; every probe terminates
SpecFair ==
    /\ Init
    /\ [][NextFair]_vars
    /\ \A u \in Units : WF_vars(UnitStep(u))
    /\ WF_vars(MainStepFair)

(***************************************************************************)
(* Properties.                                                             *)
(***************************************************************************)
PermitHolders == { u \in Units : HoldsPermit(u) }

\* C1: with ceiling MaxConcurrent and more targets queued than that, in every
\* reachable state at most MaxConcurrent units hold a permit (the free permits
\* and the holders always add up to the ceiling), and every probe between the
\* start of spawn_node and the end of cleanup is one of the holders.
AdmissionBound ==
    /\ Cardinality(PermitHolders) <= MaxConcurrent
    /\ permits = MaxConcurrent - Cardinality(PermitHolders)
    /\ \A u \in Units : ProbeLive(u) => HoldsPermit(u)

\* the ceiling is reached while a further unit is still waiting for a permit
AdmissionBoundWitness ==
    /\ Len(Targets) > MaxConcurrent
    /\ Cardinality(PermitHolders) = MaxConcurrent
    /\ permits = 0
    /\ \E u \in Units : unit[u].pc = "queued"

\* C2: once three consecutive polls have returned a payload with neither
\* recognised metric, bootnode_is_working has ended in NoMetricFound.
NoMetricFoundAtThirdPoll ==
    nm_run >= MAX_CONSECUTIVE_FAILURES => pl.st = "NoMetricFound"

\* the TestResults test_bootnode has returned in this cycle
ProducedResults ==
    { unit[u].task.result : u \in { v \in Units : unit[v].task.result.status # "none" } }

\* C3: every TestResult has valid = (discovered_peers >= min_peers and
\* status = Success).
ValidIffSuccessAboveMinimum ==
    \A r \in ProducedResults :
        r.valid = (r.discovered_peers >= min_peers /\ r.status = "Success")

\* C4: when a unit has finished and its probe had created the working
\* directory, the directory was removed exactly once, and the process, if one
\* was spawned, was killed.
CleanupOnEveryExitPath ==
    \A u \in Units :
        unit[u].pc = "done" /\ hist[u].dir_created =>
            /\ hist[u].removals = 1
            /\ hist[u].launched => hist[u].kills = 1

PortsOf(u) == {unit[u].prometheus_port, unit[u].p2p_port}

\* C5: the ports of all live NodeProcess instances are pairwise distinct,
\* the two ports of one instance included.
LivePortsDistinct ==
    \A u, v \in Units :
        NodeLive(u) /\ NodeLive(v) =>
            /\ unit[u].prometheus_port # unit[u].p2p_port
            /\ u # v => PortsOf(u) \cap PortsOf(v) = {}

\* C6: no two live probes use the same working directory.
LiveDataDirsDistinct ==
    \A u, v \in Units :
        u # v /\ ProbeLive(u) /\ ProbeLive(v) => DataDir(u) # DataDir(v)

\* C7: a unit whose cleanup failed to remove the working directory still ends
\* with the TestResult that carries the status the poller decided, recorded
\* in telemetry, and merged once run_test_cycle has handled it.
CleanupErrorKeepsOutcome ==
    \A u \in Units :
        unit[u].pc = "done" /\ hist[u].lost_status # "none" =>
            /\ unit[u].task.kind = "ok"
            /\ unit[u].task.result.status = hist[u].lost_status
            /\ hist[u].recorded
            /\ main_pc = "cycle_done" => u \in merged

Panicked == { u \in Units : unit[u].task.kind = "panic" }

\* C8: when run_test_cycle returns from a cycle in which a unit panicked, it
\* returns the summary, and every other unit's outcome was counted and handed
\* to update_results.
PanicIsolated ==
    main_pc = "cycle_done" /\ Panicked # {} =>
        /\ cycle_result = "ok"
        /\ \A u \in Units :
             unit[u].task.kind = "ok" =>
                /\ u \in merged \cup merge_failed
                /\ unit[u].task.result.valid \/ u \in summary.failed_tests

\* C9: when run_test_cycle returns from a cycle in which update_results
\* failed for an outcome, the outcomes of all other units were merged.
MergeFailureIsolated ==
    main_pc = "cycle_done" /\ merge_failed # {} /\ Panicked = {} =>
        \A u \in Units \ merge_failed : unit[u].task.kind = "ok" => u \in merged

\* C10: every value a sequential get_next_port returns lies in
\* [MIN_PORT, MAX_PORT], the counter is then one past it, or MIN_PORT after
\* MAX_PORT, and MAX_PORT - MIN_PORT + 1 calls from MIN_PORT on lead back to
\* MIN_PORT.
PortsWithinRange ==
    port_ret # -1 =>
        /\ MIN_PORT <= port_ret /\ port_ret <= MAX_PORT
        /\ NEXT_PORT = IF port_ret = MAX_PORT THEN MIN_PORT ELSE port_ret + 1
        /\ port_calls = MAX_PORT - MIN_PORT + 1 => NEXT_PORT = MIN_PORT

\* C11: check_discovered_peers never makes more than MAX_RETRIES fetch
\* attempts; the delay slept after attempt i (counted from 0) is at least
\* INITIAL_BACKOFF_MS * 2^i, these lower bounds do not decrease, and when the
\* call returns an error it has made exactly MAX_RETRIES attempts with
\* MAX_RETRIES - 1 delays between them and returns the error of the last one.
ScraperRetryDiscipline ==
    /\ sc.attempts <= MAX_RETRIES
    /\ \A i \in 1..Len(sc.delays) :
         /\ sc.delays[i] >= INITIAL_BACKOFF_MS * 2 ^ (i - 1)
         /\ i > 1 => INITIAL_BACKOFF_MS * 2 ^ (i - 1) >= INITIAL_BACKOFF_MS * 2 ^ (i - 2)
    /\ sc.pc = "done" /\ sc.result.kind = "Err" =>
         /\ sc.attempts = MAX_RETRIES
         /\ Len(sc.delays) = MAX_RETRIES - 1
         /\ sc.result.error = sc.last_error
    /\ sc.pc = "done" => Len(sc.delays) = sc.attempts - 1

\* every attempt failed and the call has returned the last error
ScraperRetryWitness ==
    /\ sc.pc = "done"
    /\ sc.result.kind = "Err"
    /\ sc.attempts = MAX_RETRIES
    /\ sc.result.error = "bad_status"

\* a document that is a JSON object of operator objects
ObjectOfObjects(file) ==
    /\ file.state \in {"absent", "json"}
    /\ \A o \in Operators : file.doc[o].kind \in {"missing", "object"}

\* C12: when the same TestResult has been merged twice into a document that
\* is a JSON object of operator objects, the document after the second merge
\* equals the document after the first; the entry under operator then network
\* is the TestResult, and every other entry is as it was before the merges.
MergeIdempotent ==
    Len(store.after) = 2 /\ store.oks = <<TRUE, TRUE>> /\ ObjectOfObjects(store.initial) =>
        /\ store.after[2] = store.after[1]
        /\ results_file = store.after[1]
        /\ store.after[1].state = "json"
        /\ store.after[1].doc[store.operator].kind = "object"
        /\ store.after[1].doc[store.operator].nets[store.network] = store.result
        /\ \A o \in Operators, n \in Networks :
             <<o, n>> # <<store.operator, store.network>> =>
                store.after[1].doc[o].nets[n] = store.initial.doc[o].nets[n]
        /\ \A o \in Operators \ {store.operator} :
             store.after[1].doc[o].kind = store.initial.doc[o].kind

\* two merges over an entry that held another outcome, next to other entries
MergeIdempotentWitness ==
    /\ Len(store.after) = 2
    /\ store.oks = <<TRUE, TRUE>>
    /\ ObjectOfObjects(store.initial)
    /\ store.initial.doc[store.operator].nets[store.network] \notin {NoResult, store.result}
    /\ \E n \in Networks \ {store.network} :
         store.initial.doc[store.operator].nets[n] # NoResult

\* C13: when the latest scrape returned a payload whose discovered-peer
\* metric is v >= min_peers, bootnode_is_working has ended in Success with
\* discovered-peer count v.
SuccessOnSufficientPeers ==
    /\ polls > 0
    /\ last_scrape.kind = "Ok"
    /\ last_scrape.peer_data.discovered # NoValue
    /\ last_scrape.peer_data.discovered >= min_peers
    => /\ pl.st = "Success"
       /\ pl.peers = last_scrape.peer_data.discovered
       /\ PollerOutcome(pl).error = "none"

\* Success with the largest count, after an earlier poll that did not succeed
SuccessOnSufficientPeersWitness ==
    /\ pl.st = "Success"
    /\ polls > 1
    /\ min_peers = MaxMinPeers
    /\ pl.peers = MaxPeers
    /\ last_scrape.peer_data.discovered = MaxPeers

\* C14: once three consecutive polls have ended in a scrape error,
\* bootnode_is_working has ended in MetricsUnavailable at that third poll,
\* with 0 discovered peers and the third scrape's error text.
MetricsUnavailableAtThirdError ==
    err_run >= MAX_CONSECUTIVE_FAILURES =>
        /\ err_run = MAX_CONSECUTIVE_FAILURES
        /\ pl.st = "MetricsUnavailable"
        /\ pl.peers = 0
        /\ pl.error = last_scrape.error

\* the third error arrived before the deadline; its text is the one kept
MetricsUnavailableWitness ==
    /\ err_run = MAX_CONSECUTIVE_FAILURES
    /\ pl.st = "MetricsUnavailable"
    /\ pl.error = "bad_status"
    /\ pl.now < pl.end_time

StartupCauses == {"create_dir_failed", "no_chain_spec", "spawn_failed"}

\* C15: a probe whose spawn_node failed never launched a process, was never
\* polled or killed, and its TestResult is NodeStartupFailed with
\* valid = false, 0 discovered peers and the cause as error detail; its task
\* ends Ok, and a cycle without panic and merge failure returns its summary
\* with every outcome merged, the startup failures included.
StartupFailureResolved ==
    /\ \A u \in Units :
         LET r == unit[u].task.result IN
         /\ unit[u].pc = "record" /\ ~hist[u].launched => r.status = "NodeStartupFailed"
         /\ r.status = "NodeStartupFailed" =>
              /\ ~r.valid
              /\ r.discovered_peers = 0
              /\ r.error_details \in StartupCauses
              /\ ~hist[u].launched
              /\ hist[u].kills = 0
              /\ unit[u].pc = "done" => unit[u].task.kind = "ok"
    /\ main_pc = "cycle_done" /\ Panicked = {} /\ merge_failed = {} =>
         /\ cycle_result = "ok"
         /\ \A u \in Units : unit[u].task.kind = "ok" => u \in merged

\* a failed launch and a missing chain spec next to a sibling that succeeded,
\* all three merged by a cycle that returned its summary
StartupFailureWitness ==
    /\ main_pc = "cycle_done"
    /\ cycle_result = "ok"
    /\ merged = Units
    /\ unit[1].task.result.error_details = "spawn_failed"
    /\ unit[2].task.result.status = "Success"
    /\ unit[3].task.result.error_details = "no_chain_spec"

BelowMinimumTimesOut ==
    polls > 0 /\ below_run = polls =>
        \/ /\ pl.st = "Polling"
           /\ pl.consecutive_failures = 0
        \/ /\ pl.st = "Timeout"
           /\ pl.now >= pl.end_time
           /\ PollerOutcome(pl) = [peers |-> 0, status |-> "Timeout", error |-> "none"]
           /\ ~PolledResult(1, PollerOutcome(pl), min_peers).valid
           /\ PolledResult(1, PollerOutcome(pl), min_peers).discovered_peers = 0

\* the whole window was spent on polls below the minimum, then Timeout
BelowMinimumTimesOutWitness ==
    /\ pl.st = "Timeout"
    /\ polls >= 2
    /\ below_run = polls
    /\ last_scrape.metrics.status = "Available"
    /\ min_peers = MaxMinPeers

LoopNeverEnds ==
    /\ main_pc \in {"idle", "cycle_done"}
    /\ main_pc = "idle" /\ logged # << >> =>
         /\ delay >= 0
         /\ elapsed < interval => elapsed + delay = interval
         /\ elapsed >= interval => delay = 0
    /\ main_pc = "cycle_done" => ENABLED MainLoopCadence
    /\ main_pc = "idle" /\ Len(logged) < MaxLoopCycles => ENABLED MainLoopCycle

\* a cycle has run after a cycle that failed and a positive cadence delay
LoopNeverEndsWitness ==
    /\ main_pc = "cycle_done"
    /\ Len(logged) >= 2
    /\ logged[Len(logged) - 1] = "err"
    /\ delay > 0

\* the recognised metrics the parser found in the payload of the scrape
FoundMetrics ==
    { k \in {"discovered", "connected"} : sc.result.peer_data[k] # NoValue }

PollerTerminates ==
    /\ [](/\ pl.st \in {"Starting", "Polling"} \cup TerminalStatus
          /\ polls <= timeout
          /\ pl.st \notin TerminalStatus => ENABLED NextPoller
          /\ pl.st = "Polling" /\ pl.now >= pl.end_time =>
               /\ ~ENABLED BootnodeIsWorkingPoll
               /\ ENABLED BootnodeIsWorkingDeadline
               /\ PollerOutcome(PollerTurn(pl, NoScrape, 0, min_peers))
                    = [peers |-> 0, status |-> "Timeout", error |-> "none"]
          /\ pl.st = "Timeout" => pl.now >= pl.end_time
          /\ pl.st \in TerminalStatus =>
               /\ ~ENABLED BootnodeIsWorkingPoll
               /\ ~ENABLED NextPoller)
    /\ <>(pl.st \in TerminalStatus)
    /\ [][pl.st \in TerminalStatus => UNCHANGED <<pl, polls>>]_vars

\* the run used every second of a positive timeout on scrapes and ended in
\* Timeout
PollerTerminatesWitness ==
    /\ pl.st = "Timeout"
    /\ timeout = MaxTimeout
    /\ polls = timeout
    /\ pl.now >= pl.end_time

\* C22: run_test_cycle spawns a task for every target before it waits, and
\* returns, with a summary or an error, only when every task of the cycle has
\* finished: while it waits every target has its task; once it has returned,
\* and whenever the next cycle can start, every unit is done, no probe is
\* live and all MaxConcurrent permits are free; so a probe is live only
\* inside the cycle that spawned it, and probes of two cycles never overlap.
CycleWaitsForEveryUnit ==
    /\ main_pc = "join" =>
         /\ \A u \in Units : unit[u] # UnitNone
         /\ summary.total_tests = Len(Targets)
    /\ main_pc \in {"cycle_done", "idle"} =>
         /\ \A u \in Units : unit[u].pc = "done" /\ ~ProbeLive(u) /\ ~HoldsPermit(u)
         /\ permits = MaxConcurrent
    /\ cycle_result # "none" => main_pc = "cycle_done"
    /\ ENABLED RunTestCycleSpawn =>
         /\ \A u \in Units : unit[u].pc = "done"
         /\ permits = MaxConcurrent
    /\ \A u \in Units : ProbeLive(u) \/ HoldsPermit(u) => main_pc = "join" /\ cycle >= 1

\* a second cycle has returned early, with the JoinError of a panicked task,
\* after a first cycle whose probes left ports behind them
CycleWaitsForEveryUnitWitness ==
    /\ cycle = 2
    /\ main_pc = "cycle_done"
    /\ cycle_result = "err"
    /\ Panicked # {}
    /\ Panicked # Units
    /\ NEXT_PORT > DEFAULT_BASE_PORT

\* the units merged so far whose outcome is stored under the key of unit u
MergedUnder(u) ==
    { v \in merged : /\ Targets[v].operator = Targets[u].operator
                     /\ Targets[v].network = Targets[u].network }

\* the units whose update_results has read the file and not yet renamed
MergesInFlight == { u \in Units : store[u].pc = "read" }

\* C23, as the code has it: the merges of a cycle are issued one at a time by
\* the collect loop, so at most one is between its read and its rename, the
\* file is then still what that merge read, and no merged update is ever
\* missing from the file: the entry under a unit's operator and network is
\* the outcome of the last merged unit with that operator and network
\* (in a file that is absent or holds a JSON object).
MergesAreSerial ==
    /\ Cardinality(MergesInFlight) <= 1
    /\ \A u \in MergesInFlight : store[u].content = results_file /\ u = idx
    /\ results_file # FileNotObject =>
       \A u \in merged :
         LET last == CHOOSE v \in MergedUnder(u) : \A w \in MergedUnder(u) : w <= v IN
         /\ results_file.state = "json"
         /\ results_file.doc[Targets[u].operator].kind = "object"
         /\ results_file.doc[Targets[u].operator].nets[Targets[u].network]
              = unit[last].task.result

\* the third merge is between its read and its rename and the file holds the
\* two updates merged before it, under different operators
MergesAreSerialWitness ==
    /\ MergesInFlight = {3}
    /\ merged = {1, 2}
    /\ store[3].content.doc["opA"].nets["n1"] = unit[2].task.result
    /\ unit[1].task.result # unit[2].task.result
    /\ results_file.doc["opB"] # NoEntry

\* C23, as stated: the merges for different units of a cycle can overlap:
\* while one unit's merge is between its read and its rename, the merge of
\* any other unit whose outcome has not been merged yet can start.
MergesCanOverlap ==
    \A u \in MergesInFlight :
        \A v \in Units \ {u} :
            unit[v].task.kind = "ok" /\ store[v].pc = "idle" /\ main_pc = "join" =>
                ENABLED CollectMergeRead(v)

\* the units of this cycle whose task returned Ok(TestResult)
OkTasks == { u \in Units : unit[u].task.kind = "ok" }

\* the outcomes of this cycle for the operator and network of unit u
OkTasksUnder(u) ==
    { v \in OkTasks : /\ Targets[v].operator = Targets[u].operator
                      /\ Targets[v].network = Targets[u].network }

\* C24: results.json holds one value per operator and network, and what it
\* holds there is nothing or an outcome of that operator and network; when a
\* cycle has returned with every outcome it produced merged, the entry of
\* each operator and network with an outcome is the outcome of the unit
\* latest in the target list among them, whatever the order in which the
\* probes completed.
LatestListedWins ==
    /\ \A o \in Operators, n \in Networks :
         LET stored == results_file.doc[o].nets[n] IN
         stored # NoResult =>
            /\ results_file.state = "json"
            /\ results_file.doc[o].kind = "object"
            /\ stored.id = o
            /\ stored.network = n
    /\ main_pc = "cycle_done" /\ merged = OkTasks =>
         \A u \in OkTasks :
            LET last == CHOOSE v \in OkTasksUnder(u) : \A w \in OkTasksUnder(u) : w <= v IN
            results_file.doc[Targets[u].operator].nets[Targets[u].network]
                = unit[last].task.result

\* opA's second address for n1 completed first and timed out, its first
\* address completed last and succeeded (the gauge shows it): the file holds
\* the outcome of the second address
LatestListedWinsWitness ==
    /\ main_pc = "cycle_done"
    /\ cycle = 1
    /\ merged = Units
    /\ unit[1].task.result.status = "Success"
    /\ unit[1].task.result.valid
    /\ unit[2].task.result.status = "Timeout"
    /\ test_success[<<"n1", "opA">>] = 1
    /\ results_file.doc["opA"].nets["n1"] = unit[2].task.result

\* C25: when a cycle has returned with an outcome from every unit and every
\* outcome merged, the test_success gauge of each unit's network and
\* provider is 1 exactly when the outcome stored in results.json under that
\* operator and network is valid.
GaugeAgreesWithFile ==
    main_pc = "cycle_done" /\ cycle_result = "ok" /\ OkTasks = Units /\ merged = Units =>
        \A u \in Units :
            test_success[<<Targets[u].network, Targets[u].operator>>]
                = IF results_file.doc[Targets[u].operator].nets[Targets[u].network].valid
                  THEN 1 ELSE 0

\* C26: every TestResult test_bootnode has returned has one of the five
\* statuses, carries an error detail exactly when its status is
\* MetricsUnavailable or NodeStartupFailed, has 0 discovered peers unless its
\* status is Success, and with Success has at least min_peers of them.
ResultFieldsConsistent ==
    \A r \in ProducedResults :
        /\ r.status \in TerminalStatus \cup {"NodeStartupFailed"}
        /\ r.error_details # "none" <=> r.status \in {"MetricsUnavailable", "NodeStartupFailed"}
        /\ r.status # "Success" => r.discovered_peers = 0
        /\ r.status = "Success" => r.discovered_peers >= min_peers

\* one cycle has produced a MetricsUnavailable outcome with its error text, a
\* Success with a positive minimum, and a startup failure
ResultFieldsConsistentWitness ==
    /\ min_peers = MaxMinPeers
    /\ min_peers > 0
    /\ \E r \in ProducedResults :
         r.status = "MetricsUnavailable" /\ r.error_details = "fetch_failed"
    /\ \E r \in ProducedResults : r.status = "Success" /\ r.discovered_peers = MaxPeers
    /\ \E r \in ProducedResults : r.status = "NodeStartupFailed"

\* C27: with more targets than permits and fair scheduling, every unit that
\* is queued gets a permit and starts its probe, every queued unit finishes,
\* and every cycle that has spawned its units returns.
NoUnitStarves ==
    /\ \A u \in Units : (unit[u].pc = "queued") ~> (unit[u].pc = "spawn_dir")
    /\ \A u \in Units : (unit[u].pc = "queued") ~> (unit[u].pc = "done")
    /\ (main_pc = "join") ~> (main_pc = "cycle_done")

\* all three units have got one of the two permits: the last of them has
\* just been admitted after another unit finished and freed its permit
NoUnitStarvesWitness ==
    /\ Len(Targets) > MaxConcurrent
    /\ permits = 0
    /\ \E u, v, w \in Units :
         /\ unit[u].pc = "done" /\ unit[u].task.kind # "pending"
         /\ unit[v].pc = "polling"
         /\ unit[w].pc = "spawn_dir"


=============================================================================
